---- MODULE Spec2Model ----
(***************************************************************************)
(* Model of the flatten utility (src/src/index.ts): the path-to-filename   *)
(* transformation, the parsing of the size limit and of the rule file, and *)
(* the main execution with runRule.  Strings are sequences of              *)
(* one-character strings, so that escaping, splitting and joining are      *)
(* computed the way the code computes them.                                *)
(***************************************************************************)
EXTENDS Integers, Sequences, FiniteSets, TLC

VARIABLES
  platform,          \* "posix" or "win32": decides node:path's sep
  sourceFile,        \* loop variable of runRule (transform specification)
  flattenedFileName, \* name computed for sourceFile
  prevFile,          \* source path of the previous loop iteration
  prevName,          \* name computed in the previous loop iteration
  args,              \* process.argv, as the options it carries
  flattenFile,       \* content of .flatten, or NoFile
  gitignoreFile,     \* content of .gitignore, or NoFile
  tree,              \* the project tree as the collaborators answer about it
  target0,           \* the target directory before the run
  pc,                \* position of the script
  exitReason,        \* which process.exit(1) was taken, "none" otherwise
  dryRun, cleanFirst, respectGitignore, maxFileSize,
  targetExists,      \* existsSync(targetPath)
  targetFiles,       \* names of the files in the target directory
  copyRules, denyRules,
  ruleIdx,           \* position of the reduce over copyRules
  matchingFiles,     \* runRule: matchingFiles after the exclusion filter
  fileIdx,           \* runRule: position of the for loop
  successfulCopies,  \* runRule: local counter
  totalFilesCopied,  \* accumulator of the reduce
  copiedFiles, skippedFiles, errorFiles, totalBytes,
  outcomes,          \* history: one record per processed path
  globCalls,         \* history: number of include rules resolved
  copyCalls          \* history: number of copyFileSync calls

vars == <<platform, sourceFile, flattenedFileName, prevFile, prevName, args,
          flattenFile, gitignoreFile, tree, target0, pc, exitReason, dryRun,
          cleanFirst, respectGitignore, maxFileSize, targetExists, targetFiles,
          copyRules, denyRules, ruleIdx, matchingFiles, fileIdx,
          successfulCopies, totalFilesCopied, copiedFiles, skippedFiles,
          errorFiles, totalBytes, outcomes, globCalls, copyCalls>>

inputVars == <<platform, args, flattenFile, gitignoreFile, tree, target0>>

transformVars == <<sourceFile, flattenedFileName, prevFile, prevName>>

runVars == <<pc, exitReason, dryRun, cleanFirst, respectGitignore, maxFileSize,
             targetExists, targetFiles, copyRules, denyRules, ruleIdx,
             matchingFiles, fileIdx, successfulCopies, totalFilesCopied,
             copiedFiles, skippedFiles, errorFiles, totalBytes, outcomes,
             globCalls, copyCalls>>

-----------------------------------------------------------------------------
(* Bounds *)

MaxPathLen == 4   \* longest enumerated source path, in characters
MaxSize == 2      \* largest file size in the tree, in bytes
MaxMatches == 2   \* longest list globSync returns for the first include rule

-----------------------------------------------------------------------------
(* Strings *)

Range(s) == {s[i] : i \in 1..Len(s)}

Includes(s, x) == \E i \in 1..Len(s) : s[i] = x

StartsWith(s, c) == Len(s) > 0 /\ s[1] = c

RECURSIVE replaceAll(_, _, _)
replaceAll(s, c, rep) ==
  IF s = <<>> THEN <<>>
  ELSE (IF Head(s) = c THEN rep ELSE <<Head(s)>>) \o replaceAll(Tail(s), c, rep)

\* String.prototype.split with a one-character separator: "" gives [""],
\* adjacent separators give empty components.
RECURSIVE split(_, _)
split(s, sep) ==
  IF s = <<>> THEN << <<>> >>
  ELSE LET rest == split(Tail(s), sep)
       IN IF Head(s) = sep THEN << <<>> >> \o rest
          ELSE << <<Head(s)>> \o Head(rest) >> \o Tail(rest)

RECURSIVE joinWith(_, _)
joinWith(parts, sep) ==
  IF parts = <<>> THEN <<>>
  ELSE IF Len(parts) = 1 THEN parts[1]
  ELSE parts[1] \o sep \o joinWith(Tail(parts), sep)

RECURSIVE trimStart(_)
trimStart(s) == IF s # <<>> /\ Head(s) = " " THEN trimStart(Tail(s)) ELSE s

RECURSIVE trimEnd(_)
trimEnd(s) ==
  IF s # <<>> /\ s[Len(s)] = " " THEN trimEnd(SubSeq(s, 1, Len(s) - 1)) ELSE s

trim(s) == trimEnd(trimStart(s))

\* line.replace(/#.*$/gm, "") on a line without line breaks
RECURSIVE stripComment(_)
stripComment(s) ==
  IF s = <<>> \/ Head(s) = "#" THEN <<>> ELSE <<Head(s)>> \o stripComment(Tail(s))

Truthy(s) == s # <<>>

-----------------------------------------------------------------------------
(* Path transformation: runRule, index.ts 468-473 *)

Platforms == {"posix", "win32"}

pathSeparator(pf) == IF pf = "win32" THEN "\\" ELSE "/"

NodeModules == <<"n", "o", "d", "e", "_", "m", "o", "d", "u", "l", "e", "s">>

Unwanted == {NodeModules, <<".">>}

Wanted(component) == component \notin Unwanted

flattenName(pf, file) ==
  joinWith(
    SelectSeq(
      SelectSeq(split(replaceAll(file, "_", <<"_", "_">>), pathSeparator(pf)), Truthy),
      Wanted),
    <<"_">>)

targetPath == <<"o", "u", "t", "/">>

\* path.join(targetPath, name); targetPath always ends with a separator
join(dir, name) == dir \o name

-----------------------------------------------------------------------------
(* parseFileSize, index.ts 163-173 *)

Digits == <<"0", "1", "2", "3", "4", "5", "6", "7", "8", "9">>

IsDigit(c) == Includes(Digits, c)

DigitVal(c) == (CHOOSE i \in 1..10 : Digits[i] = c) - 1

RECURSIVE LeadingDigits(_)
LeadingDigits(s) ==
  IF s # <<>> /\ IsDigit(Head(s)) THEN <<Head(s)>> \o LeadingDigits(Tail(s)) ELSE <<>>

RECURSIVE DecimalVal(_)
DecimalVal(ds) ==
  IF ds = <<>> THEN 0 ELSE 10 * DecimalVal(SubSeq(ds, 1, Len(ds) - 1)) + DigitVal(ds[Len(ds)])

RECURSIVE Pow(_, _)
Pow(b, n) == IF n = 0 THEN 1 ELSE b * Pow(b, n - 1)

toUpperCase(s) ==
  [i \in 1..Len(s) |->
     CASE s[i] = "b" -> "B" [] s[i] = "k" -> "K" [] s[i] = "m" -> "M"
       [] s[i] = "g" -> "G" [] OTHER -> s[i]]

Units == {<<"B">>, <<"K", "B">>, <<"M", "B">>, <<"G", "B">>}

UnitBytes(u) ==
  CASE u = <<"B">> -> 1
    [] u = <<"K", "B">> -> 1024
    [] u = <<"M", "B">> -> 1024 * 1024
    [] u = <<"G", "B">> -> 1024 * 1024 * 1024

\* /^(\d+(?:\.\d+)?)(B|KB|MB|GB)$/i, then Math.floor(parseFloat(size) * unit);
\* the result says whether the function throws, and the byte count if not
parseFileSize(sizeStr) ==
  LET int  == LeadingDigits(sizeStr)
      r1   == SubSeq(sizeStr, Len(int) + 1, Len(sizeStr))
      frac == IF StartsWith(r1, ".") THEN LeadingDigits(Tail(r1)) ELSE <<>>
      unit == IF frac # <<>> THEN SubSeq(r1, Len(frac) + 2, Len(r1)) ELSE r1
  IN IF int = <<>> \/ toUpperCase(unit) \notin Units
     THEN [throws |-> TRUE, bytes |-> 0]
     ELSE [throws |-> FALSE,
           bytes |-> ((DecimalVal(int) * Pow(10, Len(frac)) + DecimalVal(frac))
                       * UnitBytes(toUpperCase(unit))) \div Pow(10, Len(frac))]

-----------------------------------------------------------------------------
(* Rule file and .gitignore parsing, index.ts 343-358 and 194-205 *)

NoFile == [exists |-> FALSE, text |-> <<>>]

File(content) == [exists |-> TRUE, text |-> content]

flattenList(configText) ==
  SelectSeq(
    [i \in 1..Len(split(configText, "\n")) |->
       trim(stripComment(split(configText, "\n")[i]))],
    Truthy)

IsDeny(rule) == StartsWith(rule, "!")

IsCopy(rule) == ~StartsWith(rule, "!")

parseDenyRules(list) ==
  [i \in 1..Len(SelectSeq(list, IsDeny)) |-> Tail(SelectSeq(list, IsDeny)[i])]

parseCopyRules(list) == SelectSeq(list, IsCopy)

GitignoreLine(line) == Truthy(line) /\ ~StartsWith(line, "#")

loadGitignorePatterns(file) ==
  IF ~file.exists THEN <<>>
  ELSE SelectSeq([i \in 1..Len(split(file.text, "\n")) |-> trim(split(file.text, "\n")[i])],
                 GitignoreLine)

-----------------------------------------------------------------------------
(* The environment: project tree, collaborators, target directory *)

F1 == <<"a", "_", "/", "b">>
F2 == <<"a", "/", "_", "b">>
F3 == <<"c", ".", "t">>

Files == {F1, F2, F3}

PA == <<"A">>
PB == <<"B", "*">>
PX == <<"X">>
PY == <<"Y">>

ConfigRules == <<"A", "\n", "!", "X", "\n", "#", " ", "c", "\n", "B", "*", " ", "#", " ", "c", "\n">>
ConfigNoPattern == <<"#", " ", "c", "\n", " ", "\n">>
GitignoreText == <<"Y", "\n", "#", " ", "c", "\n">>

\* lists of distinct files, at most n long, in any discovery order
FileLists(n) ==
  {l \in UNION {[1..k -> Files] : k \in 0..n} :
     \A i, j \in 1..Len(l) : i # j => l[i] # l[j]}

NoFailure == [op |-> "none", file |-> <<>>]

Failures ==
  {NoFailure, [op |-> "stat", file |-> F1], [op |-> "copy", file |-> F1]}

\* glob: what globSync returns for each include pattern; deny: the paths
\* minimatch matches against each exclude pattern; size: statSync(f).size;
\* fail: the filesystem call that throws
Trees(withY) ==
  [glob : {g \in [{PA, PB} -> FileLists(MaxMatches)] : Len(g[PB]) <= 1},
   deny : {d \in [{PX, PY} -> SUBSET Files] :
             /\ d[PX] \in {{}, {F1}, {F3}}
             /\ d[PY] \in (IF withY THEN {{}, {F2}} ELSE {{}})},
   size : {sz \in [Files -> 1..MaxSize] : sz[F2] = 1 /\ sz[F3] = 1},
   fail : Failures]

DefaultTree ==
  [glob |-> (PA :> <<F1, F3>>) @@ (PB :> <<F2>>),
   deny |-> (PX :> {}) @@ (PY :> {}),
   size |-> [f \in Files |-> 1],
   fail |-> NoFailure]

globSync(tr, pattern) ==
  IF pattern \in DOMAIN tr.glob THEN tr.glob[pattern] ELSE <<>>

minimatch(tr, file, denyRule) ==
  denyRule \in DOMAIN tr.deny /\ file \in tr.deny[denyRule]

statThrows(tr, file) == tr.fail = [op |-> "stat", file |-> file]

copyThrows(tr, file) == tr.fail = [op |-> "copy", file |-> file]

\* globSync(join(targetPath, "*.*")): names with a dot that do not start with one
MatchesStarDotStar(name) == Includes(name, ".") /\ ~StartsWith(name, ".")

OldDotted == <<"o", ".", "t">>
OldPlain == <<"k">>

Targets ==
  {[exists |-> FALSE, files |-> {}], [exists |-> TRUE, files |-> {OldDotted, OldPlain}]}

-----------------------------------------------------------------------------
(* Command line *)

NoMaxSize == [given |-> FALSE, value |-> <<>>]

\* value <<>>: --max-size is the last argument (or is followed by "")
MaxSizeArgs ==
  {NoMaxSize} \cup
  {[given |-> TRUE, value |-> v] :
     v \in {<<>>, <<"0", "B">>, <<"1", "B">>, <<"1", "K">>}}

Args == [clean : BOOLEAN, dryRun : BOOLEAN, gitignore : BOOLEAN, maxSize : MaxSizeArgs]

Null == -1   \* maxFileSize: number | null

MaxSizeError(a) ==
  a.maxSize.given /\ (a.maxSize.value = <<>> \/ parseFileSize(a.maxSize.value).throws)

ConfigError(a, cfg) ==
  \/ MaxSizeError(a)
  \/ ~cfg.exists
  \/ flattenList(cfg.text) = <<>>

-----------------------------------------------------------------------------
(* runRule, index.ts 419-510 *)

\* a loop in which every exclusion filters the list globSync returned, not the
\* list narrowed so far: only the last exclusion takes effect
applyDenyRulesLastOnly(tr, files, rules) ==
  IF rules = <<>> THEN files
  ELSE LET Keep(file) == ~minimatch(tr, file, rules[Len(rules)])
       IN SelectSeq(files, Keep)

\* the for loop over denyRules, index.ts 428-437
RECURSIVE applyDenyRules(_, _, _)
applyDenyRules(tr, files, rules) ==
  IF rules = <<>> THEN files
  ELSE LET Keep(file) == ~minimatch(tr, file, Head(rules))
       IN applyDenyRules(tr, SelectSeq(files, Keep), Tail(rules))

Outcome(rule, file, outcome, size) ==
  [rule |-> rule, file |-> file, outcome |-> outcome, size |-> size]

\* if (maxFileSize && fileSize > maxFileSize), index.ts 454
exceedsLimit(maxFS, fileSize) == maxFS # Null /\ maxFS # 0 /\ fileSize > maxFS

\* an iteration that records the target path as copied before copyFileSync
\* is called, so that a copy that throws leaves its name behind
processFileRecordsBeforeCopy(e, rule, file, dry, maxFS, tr, pf) ==
  LET fileSize == tr.size[file]
      name     == flattenName(pf, file)
      targetFilePath == join(targetPath, name)
      failed   == [e EXCEPT !.errorFiles = Append(@, file),
                            !.outcomes = Append(@, Outcome(rule, file, "error", 0))]
  IN IF statThrows(tr, file) THEN failed
     ELSE IF exceedsLimit(maxFS, fileSize)
     THEN [e EXCEPT !.skippedFiles = Append(@, file),
                    !.outcomes = Append(@, Outcome(rule, file, "skipped-size", fileSize))]
     ELSE IF Includes(e.copiedFiles, targetFilePath)
     THEN [e EXCEPT !.skippedFiles = Append(@, file),
                    !.outcomes = Append(@, Outcome(rule, file, "skipped-duplicate", fileSize))]
     ELSE IF dry
     THEN [e EXCEPT !.successfulCopies = @ + 1,
                    !.totalBytes = @ + fileSize,
                    !.outcomes = Append(@, Outcome(rule, file, "would-copy", fileSize))]
     ELSE IF copyThrows(tr, file)
     THEN [failed EXCEPT !.copyCalls = @ + 1,
                         !.copiedFiles = Append(@, targetFilePath)]
     ELSE [e EXCEPT !.copyCalls = @ + 1,
                    !.targetFiles = @ \cup {name},
                    !.successfulCopies = @ + 1,
                    !.totalBytes = @ + fileSize,
                    !.copiedFiles = Append(@, targetFilePath),
                    !.outcomes = Append(@, Outcome(rule, file, "copied", fileSize))]

\* One iteration of the for loop, index.ts 447-507, on the state e that the
\* loop reads and writes; rule is the position of the include rule.
processFile(e, rule, file, dry, maxFS, tr, pf) ==
  LET fileSize == tr.size[file]
      name     == flattenName(pf, file)
      targetFilePath == join(targetPath, name)
      failed   == [e EXCEPT !.errorFiles = Append(@, file),
                            !.outcomes = Append(@, Outcome(rule, file, "error", 0))]
  IN IF statThrows(tr, file) THEN failed
     ELSE IF exceedsLimit(maxFS, fileSize)
     THEN [e EXCEPT !.skippedFiles = Append(@, file),
                    !.outcomes = Append(@, Outcome(rule, file, "skipped-size", fileSize))]
     ELSE IF Includes(e.copiedFiles, targetFilePath)
     THEN [e EXCEPT !.skippedFiles = Append(@, file),
                    !.outcomes = Append(@, Outcome(rule, file, "skipped-duplicate", fileSize))]
     ELSE IF dry
     THEN [e EXCEPT !.successfulCopies = @ + 1,
                    !.totalBytes = @ + fileSize,
                    !.outcomes = Append(@, Outcome(rule, file, "would-copy", fileSize))]
     ELSE IF copyThrows(tr, file)
     THEN [failed EXCEPT !.copyCalls = @ + 1]
     ELSE [e EXCEPT !.copyCalls = @ + 1,
                    !.targetFiles = @ \cup {name},
                    !.successfulCopies = @ + 1,
                    !.totalBytes = @ + fileSize,
                    !.copiedFiles = Append(@, targetFilePath),
                    !.outcomes = Append(@, Outcome(rule, file, "copied", fileSize))]

Engine ==
  [successfulCopies |-> successfulCopies, totalFilesCopied |-> totalFilesCopied,
   totalBytes |-> totalBytes,
   copiedFiles |-> copiedFiles, skippedFiles |-> skippedFiles,
   errorFiles |-> errorFiles, targetFiles |-> targetFiles,
   outcomes |-> outcomes, copyCalls |-> copyCalls]

\* the whole for loop of runRule, index.ts 447-507
RECURSIVE processFiles(_, _, _, _, _, _, _)
processFiles(e, rule, files, dry, maxFS, tr, pf) ==
  IF files = <<>> THEN e
  ELSE processFiles(processFile(e, rule, Head(files), dry, maxFS, tr, pf),
                    rule, Tail(files), dry, maxFS, tr, pf)

\* one call of runRule with its return value added by the reduce
runRule(e, rule, pattern, dRules, dry, maxFS, tr, pf) ==
  LET files == applyDenyRules(tr, globSync(tr, pattern), dRules)
      after == processFiles([e EXCEPT !.successfulCopies = 0], rule, files,
                            dry, maxFS, tr, pf)
  IN [after EXCEPT !.totalFilesCopied = @ + after.successfulCopies,
                   !.successfulCopies = 0]

\* copyRules.reduce((acc, rule) => acc + runRule(rule, denyRules), 0),
\* index.ts 384-386, from include rule number rule on
RECURSIVE runRules(_, _, _, _, _, _, _, _)
runRules(e, rule, cRules, dRules, dry, maxFS, tr, pf) ==
  IF rule > Len(cRules) THEN e
  ELSE runRules(runRule(e, rule, cRules[rule], dRules, dry, maxFS, tr, pf),
                rule + 1, cRules, dRules, dry, maxFS, tr, pf)

\* the accumulators as declared, index.ts 74-77
EmptyEngine(files) ==
  [successfulCopies |-> 0, totalFilesCopied |-> 0, totalBytes |-> 0,
   copiedFiles |-> <<>>, skippedFiles |-> <<>>, errorFiles |-> <<>>,
   targetFiles |-> files, outcomes |-> <<>>, copyCalls |-> 0]

-----------------------------------------------------------------------------
(* Main execution, index.ts 58-412 *)

Init ==
  /\ platform = "posix"
  /\ sourceFile = <<>> /\ flattenedFileName = <<>>
  /\ prevFile = <<>> /\ prevName = <<>>
  /\ args \in Args
  /\ flattenFile \in {NoFile, File(ConfigNoPattern), File(ConfigRules)}
  /\ target0 \in Targets
  /\ \/ /\ gitignoreFile \in {NoFile, File(GitignoreText)}
        /\ tree = DefaultTree
     \/ /\ ~ConfigError(args, flattenFile)
        /\ gitignoreFile = File(GitignoreText)
        /\ tree \in Trees(args.gitignore)
  /\ pc = "args" /\ exitReason = "none"
  /\ dryRun = FALSE /\ cleanFirst = FALSE /\ respectGitignore = FALSE
  /\ maxFileSize = Null
  /\ targetExists = target0.exists /\ targetFiles = target0.files
  /\ copyRules = <<>> /\ denyRules = <<>>
  /\ ruleIdx = 0 /\ matchingFiles = <<>> /\ fileIdx = 0
  /\ successfulCopies = 0 /\ totalFilesCopied = 0
  /\ copiedFiles = <<>> /\ skippedFiles = <<>> /\ errorFiles = <<>>
  /\ totalBytes = 0
  /\ outcomes = <<>> /\ globCalls = 0 /\ copyCalls = 0

\* the loop over args, index.ts 210-288
ParseArgs ==
  /\ pc = "args"
  /\ cleanFirst' = args.clean
  /\ dryRun' = args.dryRun
  /\ respectGitignore' = args.gitignore
  /\ IF MaxSizeError(args)
     THEN /\ pc' = "exit1" /\ exitReason' = "max-size"
          /\ UNCHANGED maxFileSize
     ELSE /\ pc' = "checkConfig" /\ UNCHANGED exitReason
          /\ maxFileSize' = IF args.maxSize.given
                            THEN parseFileSize(args.maxSize.value).bytes
                            ELSE Null
  /\ UNCHANGED <<inputVars, transformVars, targetExists, targetFiles, copyRules,
                 denyRules, ruleIdx, matchingFiles, fileIdx, successfulCopies,
                 totalFilesCopied, copiedFiles, skippedFiles, errorFiles,
                 totalBytes, outcomes, globCalls, copyCalls>>

\* index.ts 303-307
CheckFlattenFile ==
  /\ pc = "checkConfig"
  /\ IF ~flattenFile.exists
     THEN pc' = "exit1" /\ exitReason' = "no-config"
     ELSE pc' = "prepareTarget" /\ UNCHANGED exitReason
  /\ UNCHANGED <<inputVars, transformVars, dryRun, cleanFirst, respectGitignore,
                 maxFileSize, targetExists, targetFiles, copyRules, denyRules,
                 ruleIdx, matchingFiles, fileIdx, successfulCopies,
                 totalFilesCopied, copiedFiles, skippedFiles, errorFiles,
                 totalBytes, outcomes, globCalls, copyCalls>>

\* a preparation whose cleaning is not under the dry-run test
PrepareTargetCleansInDryRun ==
  /\ pc = "prepareTarget"
  /\ LET filesToRemove ==
           IF cleanFirst THEN {f \in targetFiles : MatchesStarDotStar(f)} ELSE {}
     IN \E removed \in SUBSET filesToRemove :
          /\ targetExists' = (targetExists \/ ~dryRun)
          /\ targetFiles' = targetFiles \ removed
          /\ IF removed = filesToRemove
             THEN pc' = "readConfig" /\ UNCHANGED exitReason
             ELSE pc' = "exit1" /\ exitReason' = "clean"
  /\ UNCHANGED <<inputVars, transformVars, dryRun, cleanFirst, respectGitignore,
                 maxFileSize, copyRules, denyRules, ruleIdx, matchingFiles,
                 fileIdx, successfulCopies, totalFilesCopied, copiedFiles,
                 skippedFiles, errorFiles, totalBytes, outcomes, globCalls,
                 copyCalls>>

\* index.ts 310-337: mkdirSync, then rmSync of every "*.*" file under --clean;
\* an rmSync that throws ends the run after a part of the files is removed
PrepareTarget ==
  /\ pc = "prepareTarget"
  /\ IF dryRun
     THEN /\ pc' = "readConfig"
          /\ UNCHANGED <<exitReason, targetExists, targetFiles>>
     ELSE LET filesToRemove ==
                IF cleanFirst THEN {f \in targetFiles : MatchesStarDotStar(f)} ELSE {}
          IN \E removed \in SUBSET filesToRemove :
               /\ targetExists' = TRUE
               /\ targetFiles' = targetFiles \ removed
               /\ IF removed = filesToRemove
                  THEN pc' = "readConfig" /\ UNCHANGED exitReason
                  ELSE pc' = "exit1" /\ exitReason' = "clean"
  /\ UNCHANGED <<inputVars, transformVars, dryRun, cleanFirst, respectGitignore,
                 maxFileSize, copyRules, denyRules, ruleIdx, matchingFiles,
                 fileIdx, successfulCopies, totalFilesCopied, copiedFiles,
                 skippedFiles, errorFiles, totalBytes, outcomes, globCalls,
                 copyCalls>>

\* index.ts 340-369
ReadConfig ==
  /\ pc = "readConfig"
  /\ LET list == flattenList(flattenFile.text)
     IN IF Len(list) = 0
        THEN /\ pc' = "exit1" /\ exitReason' = "no-patterns"
             /\ UNCHANGED <<copyRules, denyRules, ruleIdx>>
        ELSE /\ pc' = "rules" /\ UNCHANGED exitReason
             /\ copyRules' = parseCopyRules(list)
             /\ denyRules' = parseDenyRules(list) \o
                  (IF respectGitignore THEN loadGitignorePatterns(gitignoreFile)
                   ELSE <<>>)
             /\ ruleIdx' = 1
  /\ UNCHANGED <<inputVars, transformVars, dryRun, cleanFirst, respectGitignore,
                 maxFileSize, targetExists, targetFiles, matchingFiles, fileIdx,
                 successfulCopies, totalFilesCopied, copiedFiles, skippedFiles,
                 errorFiles, totalBytes, outcomes, globCalls, copyCalls>>

\* runRule up to the loop, index.ts 419-444; an empty list returns 0 at once
StartRule ==
  /\ pc = "rules" /\ ruleIdx <= Len(copyRules)
  /\ LET files == applyDenyRules(tree, globSync(tree, copyRules[ruleIdx]), denyRules)
     IN /\ globCalls' = globCalls + 1
        /\ matchingFiles' = files
        /\ IF Len(files) = 0
           THEN /\ ruleIdx' = ruleIdx + 1
                /\ UNCHANGED <<pc, fileIdx>>
           ELSE /\ pc' = "loop" /\ fileIdx' = 1
                /\ UNCHANGED ruleIdx
        /\ successfulCopies' = 0
  /\ UNCHANGED <<inputVars, transformVars, exitReason, dryRun, cleanFirst,
                 respectGitignore, maxFileSize, targetExists, targetFiles,
                 copyRules, denyRules, totalFilesCopied, copiedFiles,
                 skippedFiles, errorFiles, totalBytes, outcomes, copyCalls>>

\* one iteration of the loop of runRule, index.ts 447-507
ProcessFile ==
  /\ pc = "loop" /\ fileIdx <= Len(matchingFiles)
  /\ LET e == processFile(Engine, ruleIdx, matchingFiles[fileIdx], dryRun,
                          maxFileSize, tree, platform)
     IN /\ successfulCopies' = e.successfulCopies
        /\ totalBytes' = e.totalBytes
        /\ copiedFiles' = e.copiedFiles
        /\ skippedFiles' = e.skippedFiles
        /\ errorFiles' = e.errorFiles
        /\ targetFiles' = e.targetFiles
        /\ outcomes' = e.outcomes
        /\ copyCalls' = e.copyCalls
  /\ fileIdx' = fileIdx + 1
  /\ UNCHANGED <<inputVars, transformVars, pc, exitReason, dryRun, cleanFirst,
                 respectGitignore, maxFileSize, targetExists, copyRules,
                 denyRules, ruleIdx, matchingFiles, totalFilesCopied, globCalls>>

\* a reduce that keeps the last return value instead of adding it
EndRuleKeepsLast ==
  /\ pc = "loop" /\ fileIdx > Len(matchingFiles)
  /\ totalFilesCopied' = successfulCopies
  /\ ruleIdx' = ruleIdx + 1
  /\ pc' = "rules"
  /\ matchingFiles' = <<>> /\ fileIdx' = 0 /\ successfulCopies' = 0
  /\ UNCHANGED <<inputVars, transformVars, exitReason, dryRun, cleanFirst,
                 respectGitignore, maxFileSize, targetExists, targetFiles,
                 copyRules, denyRules, copiedFiles, skippedFiles, errorFiles,
                 totalBytes, outcomes, globCalls, copyCalls>>

\* return successfulCopies, index.ts 509, added by the reduce, index.ts 384-386
EndRule ==
  /\ pc = "loop" /\ fileIdx > Len(matchingFiles)
  /\ totalFilesCopied' = totalFilesCopied + successfulCopies
  /\ ruleIdx' = ruleIdx + 1
  /\ pc' = "rules"
  /\ matchingFiles' = <<>> /\ fileIdx' = 0 /\ successfulCopies' = 0
  /\ UNCHANGED <<inputVars, transformVars, exitReason, dryRun, cleanFirst,
                 respectGitignore, maxFileSize, targetExists, targetFiles,
                 copyRules, denyRules, copiedFiles, skippedFiles, errorFiles,
                 totalBytes, outcomes, globCalls, copyCalls>>

\* the final report, index.ts 387-412
Report ==
  /\ pc = "rules" /\ ruleIdx > Len(copyRules)
  /\ pc' = "done"
  /\ UNCHANGED <<inputVars, transformVars, exitReason, dryRun, cleanFirst,
                 respectGitignore, maxFileSize, targetExists, targetFiles,
                 copyRules, denyRules, ruleIdx, matchingFiles, fileIdx,
                 successfulCopies, totalFilesCopied, copiedFiles, skippedFiles,
                 errorFiles, totalBytes, outcomes, globCalls, copyCalls>>

Next ==
  \/ ParseArgs
  \/ CheckFlattenFile
  \/ PrepareTarget
  \/ ReadConfig
  \/ StartRule
  \/ ProcessFile
  \/ EndRule
  \/ Report

Spec == Init /\ [][Next]_vars

-----------------------------------------------------------------------------
(* The transformation on its own: two successive iterations of the loop of *)
(* runRule, index.ts 447 and 468-473, on arbitrary source paths            *)

PathChars == {"a", "_", "/", "\\"}

BoundedPaths == UNION {[1..n -> PathChars] : n \in 1..MaxPathLen}

\* the paths of the README table and of the header comment, and paths with
\* ".", "./" and node_modules components
ExButton == <<"s", "r", "c", "/", "c", "o", "m", "p", "o", "n", "e", "n", "t", "s", "/", "B", "u", "t", "t", "o", "n", ".", "t", "s", "x">>
ExButtonFlat == <<"s", "r", "c", "_", "c", "o", "m", "p", "o", "n", "e", "n", "t", "s", "_", "B", "u", "t", "t", "o", "n", ".", "t", "s", "x">>
ExNavBar == <<"l", "i", "b", "/", "n", "a", "v", "_", "b", "a", "r", ".", "j", "s">>
ExNavBarFlat == <<"l", "i", "b", "_", "n", "a", "v", "_", "_", "b", "a", "r", ".", "j", "s">>
ExIndex == <<"i", "n", "d", "e", "x", ".", "t", "s">>
ExClient == <<"u", "t", "i", "l", "s", "/", "a", "p", "i", "/", "c", "l", "i", "e", "n", "t", ".", "t", "s">>
ExClientFlat == <<"u", "t", "i", "l", "s", "_", "a", "p", "i", "_", "c", "l", "i", "e", "n", "t", ".", "t", "s">>
ExDotSlash == <<".", "/", "a", "_", "b">>
ExInnerDot == <<"a", "/", ".", "/", "b">>
ExNodeModules == <<"n", "o", "d", "e", "_", "m", "o", "d", "u", "l", "e", "s", "/", "a">>

ExamplePaths ==
  {ExButton, ExNavBar, ExIndex, ExClient, ExDotSlash, ExInnerDot, ExNodeModules}

Paths == BoundedPaths \cup ExamplePaths

InitTransform ==
  /\ platform \in Platforms
  /\ sourceFile \in Paths /\ flattenedFileName = <<>>
  /\ prevFile = <<>> /\ prevName = <<>>
  /\ args = [clean |-> FALSE, dryRun |-> FALSE, gitignore |-> FALSE,
             maxSize |-> NoMaxSize]
  /\ flattenFile = File(ConfigRules) /\ gitignoreFile = NoFile
  /\ target0 = [exists |-> TRUE, files |-> {}]
  /\ tree = DefaultTree
  /\ pc = "flatten" /\ exitReason = "none"
  /\ dryRun = FALSE /\ cleanFirst = FALSE /\ respectGitignore = FALSE
  /\ maxFileSize = Null
  /\ targetExists = TRUE /\ targetFiles = {}
  /\ copyRules = <<>> /\ denyRules = <<>>
  /\ ruleIdx = 0 /\ matchingFiles = <<>> /\ fileIdx = 0
  /\ successfulCopies = 0 /\ totalFilesCopied = 0
  /\ copiedFiles = <<>> /\ skippedFiles = <<>> /\ errorFiles = <<>>
  /\ totalBytes = 0
  /\ outcomes = <<>> /\ globCalls = 0 /\ copyCalls = 0

\* const flattenedFileName = sourceFile.replaceAll(...)...join("_")
Flatten ==
  /\ pc = "flatten"
  /\ flattenedFileName' = flattenName(platform, sourceFile)
  /\ pc' = "flattened"
  /\ UNCHANGED <<inputVars, sourceFile, prevFile, prevName, exitReason, dryRun,
                 cleanFirst, respectGitignore, maxFileSize, targetExists,
                 targetFiles, copyRules, denyRules, ruleIdx, matchingFiles,
                 fileIdx, successfulCopies, totalFilesCopied, copiedFiles,
                 skippedFiles, errorFiles, totalBytes, outcomes, globCalls,
                 copyCalls>>

\* the loop moves to its next sourceFile
NextFile ==
  /\ pc = "flattened" /\ prevFile = <<>>
  /\ \E file \in Paths :
       /\ sourceFile' = file
       /\ prevFile' = sourceFile
       /\ prevName' = flattenedFileName
  /\ flattenedFileName' = <<>>
  /\ pc' = "flatten"
  /\ UNCHANGED <<inputVars, exitReason, dryRun, cleanFirst, respectGitignore,
                 maxFileSize, targetExists, targetFiles, copyRules, denyRules,
                 ruleIdx, matchingFiles, fileIdx, successfulCopies,
                 totalFilesCopied, copiedFiles, skippedFiles, errorFiles,
                 totalBytes, outcomes, globCalls, copyCalls>>

NextTransform == Flatten \/ NextFile

SpecTransform == InitTransform /\ [][NextTransform]_vars

-----------------------------------------------------------------------------
(* The transformation as spec.md 4.1 states it *)

\* step 2: both "/" and the platform-native separator separate components
Separators(pf) == {"/", pathSeparator(pf)}

RECURSIVE splitAny(_, _)
splitAny(s, seps) ==
  IF s = <<>> THEN << <<>> >>
  ELSE LET rest == splitAny(Tail(s), seps)
       IN IF Head(s) \in seps THEN << <<>> >> \o rest
          ELSE << <<Head(s)>> \o Head(rest) >> \o Tail(rest)

\* the component sequence of a source path after dropping empty, "." and
\* node_modules components
Components(pf, path) ==
  SelectSeq(SelectSeq(splitAny(path, Separators(pf)), Truthy), Wanted)

\* steps 1-5 of spec.md 4.1
ReferenceTransform(pf, path) ==
  LET escaped == replaceAll(path, "_", <<"_", "_">>)
      kept    == SelectSeq(SelectSeq(splitAny(escaped, Separators(pf)), Truthy), Wanted)
  IN joinWith(kept, <<"_">>)

-----------------------------------------------------------------------------
(* Claims about the transformation, checked under SpecTransform *)

\* C1: two source paths whose component sequences differ after dropping empty,
\* "." and node_modules components get different flattened names.
C1_InjectiveOnComponents ==
  (/\ pc = "flattened" /\ prevFile # <<>>
   /\ Components(platform, prevFile) # Components(platform, sourceFile))
  => prevName # flattenedFileName

\* C2: the flattened name computed in runRule equals the reference transform
\* (double every underscore, split on separators, drop empty, "." and
\* node_modules components, join with one underscore), and the documented
\* examples get the documented names.
C2_EqualsReference ==
  pc = "flattened" =>
    /\ flattenedFileName = ReferenceTransform(platform, sourceFile)
    /\ sourceFile = ExButton => flattenedFileName = ExButtonFlat
    /\ sourceFile = ExNavBar => flattenedFileName = ExNavBarFlat
    /\ sourceFile = ExClient => flattenedFileName = ExClientFlat
    /\ sourceFile = ExIndex => flattenedFileName = ExIndex

\* C3: a flattened name contains neither "/" nor the platform-native
\* separator, on every platform.
C3_NoSeparatorInName ==
  pc = "flattened" =>
    /\ "/" \notin Range(flattenedFileName)
    /\ pathSeparator(platform) \notin Range(flattenedFileName)

-----------------------------------------------------------------------------
(* Claims about the run, checked under Spec *)

Reorderings(seq) ==
  {[i \in 1..Len(seq) |-> seq[p[i]]] :
     p \in {q \in [1..Len(seq) -> 1..Len(seq)] :
              \A i, j \in 1..Len(seq) : i # j => q[i] # q[j]}}

MatchesNoDenyRule(file) ==
  \A j \in 1..Len(denyRules) : ~minimatch(tree, file, denyRules[j])

\* C4: a path that matches at least one exclude rule gets no outcome at all,
\* the paths runRule works on are exactly the resolved paths that match no
\* exclude rule, and every permutation of the exclude rules leaves the same
\* survivors.
C4_ExcludedNeverProcessed ==
  /\ \A i \in 1..Len(outcomes) : MatchesNoDenyRule(outcomes[i].file)
  /\ \A i \in 1..Len(skippedFiles) : MatchesNoDenyRule(skippedFiles[i])
  /\ \A i \in 1..Len(errorFiles) : MatchesNoDenyRule(errorFiles[i])
  /\ pc = "loop" =>
       LET found == globSync(tree, copyRules[ruleIdx])
       IN /\ matchingFiles = SelectSeq(found, MatchesNoDenyRule)
          /\ \A perm \in Reorderings(denyRules) :
               applyDenyRules(tree, found, perm) = matchingFiles

\* C4 witness: two exclude rules are in force, the first one removed a path
\* that the second one does not match, and a surviving path of the same
\* include rule has been processed.
C4_Witness ==
  /\ pc = "loop" /\ fileIdx > 1 /\ Len(denyRules) = 2
  /\ \E k \in 1..Len(globSync(tree, copyRules[ruleIdx])) :
       LET file == globSync(tree, copyRules[ruleIdx])[k]
       IN /\ minimatch(tree, file, denyRules[1])
          /\ ~minimatch(tree, file, denyRules[2])
  /\ tree.deny[denyRules[2]] # {}
  /\ \E i \in 1..Len(outcomes) : outcomes[i].rule = ruleIdx

\* C5: a path whose size can be read is skipped for size exactly when a limit
\* is configured and the size is strictly greater than it, for every limit
\* parseFileSize can return.
C5_SkippedIffAboveLimit ==
  \A i \in 1..Len(outcomes) :
    ~statThrows(tree, outcomes[i].file) =>
      (outcomes[i].outcome = "skipped-size"
         <=> (maxFileSize # Null /\ tree.size[outcomes[i].file] > maxFileSize))

CopyOutcomes == {"copied", "would-copy"}

FlatNameOf(i) == flattenName(platform, outcomes[i].file)

\* C6: duplicate detection is first-wins across the whole run: once a path
\* has the copied/would-copy outcome, no later path with the same flattened
\* name (same rule or later rule, same file or another file) gets it again,
\* so no flattened name receives a copied/would-copy outcome twice.
C6_NoNameCopiedTwice ==
  \A i, j \in 1..Len(outcomes) :
    (/\ i < j
     /\ FlatNameOf(i) = FlatNameOf(j)
     /\ outcomes[i].outcome \in CopyOutcomes)
    => outcomes[j].outcome \notin CopyOutcomes

\* the run of the rules as the code performs it with the given dry-run flag,
\* on the inputs of the current run
RunWith(dry, tr) ==
  runRules(EmptyEngine(target0.files), 1, copyRules, denyRules, dry,
           maxFileSize, tr, platform)

Classification(o) ==
  [rule |-> o.rule, file |-> o.file, size |-> o.size,
   outcome |-> IF o.outcome = "would-copy" THEN "copied" ELSE o.outcome]

Classifications(os) == [i \in 1..Len(os) |-> Classification(os[i])]

\* C7: for the same rules, limit and tree, a dry run and a real run in which
\* no copy fails give every path the same classification and give the same
\* copied count, skipped list, error list and total bytes.
C7_DryRunEquivalence ==
  (pc = "done" /\ tree.fail.op # "copy") =>
    LET other == RunWith(~dryRun, tree)
    IN /\ Classifications(outcomes) = Classifications(other.outcomes)
       /\ totalFilesCopied = other.totalFilesCopied
       /\ skippedFiles = other.skippedFiles
       /\ errorFiles = other.errorFiles
       /\ totalBytes = other.totalBytes

\* the tree without file: no include rule resolves to it
WithoutFile(tr, file) ==
  LET Other(f) == f # file
  IN [tr EXCEPT !.glob = [p \in DOMAIN tr.glob |-> SelectSeq(tr.glob[p], Other)]]

HasError(file) ==
  \E i \in 1..Len(outcomes) : outcomes[i].file = file /\ outcomes[i].outcome = "error"

\* C8: when reading the size of a path or copying it fails, that path alone
\* gets the error outcome (it is in the error list, never counted as copied,
\* its name not recorded as produced by it), and every other path of the same
\* and of the later include rules is processed with the outcome and the
\* statistics of the run in which the failing path is absent.
C8_ErrorIsolation ==
  /\ \A i \in 1..Len(outcomes) :
       outcomes[i].outcome = "error" =>
         /\ outcomes[i].file = tree.fail.file
         /\ Includes(errorFiles, outcomes[i].file)
  /\ (pc = "done" /\ HasError(tree.fail.file)) =>
       LET absent == RunWith(dryRun, WithoutFile(tree, tree.fail.file))
           Other(f) == f # tree.fail.file
           OtherOutcome(o) == o.file # tree.fail.file
       IN /\ \A i \in 1..Len(outcomes) :
               outcomes[i].file = tree.fail.file =>
                 outcomes[i].outcome \notin CopyOutcomes
          /\ SelectSeq(outcomes, OtherOutcome) = absent.outcomes
          /\ copiedFiles = absent.copiedFiles
          /\ totalFilesCopied = absent.totalFilesCopied
          /\ totalBytes = absent.totalBytes
          /\ SelectSeq(skippedFiles, Other) = absent.skippedFiles
          /\ SelectSeq(errorFiles, Other) = absent.errorFiles

\* C8 witness: the run is over, a copy failed, and a later path (one with the
\* same flattened name) was copied after it.
C8_Witness ==
  /\ pc = "done" /\ tree.fail.op = "copy"
  /\ \E i, j \in 1..Len(outcomes) :
       /\ i < j
       /\ outcomes[i].outcome = "error"
       /\ outcomes[j].outcome = "copied"
       /\ FlatNameOf(i) = FlatNameOf(j)

ConfigErrorExits == {"max-size", "no-config", "no-patterns"}

\* C9: a run that ends on a configuration error (missing rule file, rule file
\* without a pattern, malformed size limit) has resolved no include rule,
\* copied no file, and created or removed nothing at the target.
C9_ConfigErrorBeforeProcessing ==
  (pc = "exit1" /\ exitReason \in ConfigErrorExits) =>
    /\ globCalls = 0
    /\ copyCalls = 0
    /\ outcomes = <<>>
    /\ targetExists = target0.exists
    /\ targetFiles = target0.files

Survivors(rule) == SelectSeq(globSync(tree, copyRules[rule]), MatchesNoDenyRule)

RECURSIVE SurvivorCount(_)
SurvivorCount(rule) ==
  IF rule = 0 THEN 0 ELSE Len(Survivors(rule)) + SurvivorCount(rule - 1)

OutcomesOfRule(rule) ==
  LET InRule(o) == o.rule = rule IN SelectSeq(outcomes, InRule)

IsCopyOutcome(o) == o.outcome \in CopyOutcomes

RECURSIVE SizeSum(_)
SizeSum(os) ==
  IF os = <<>> THEN 0 ELSE tree.size[Head(os).file] + SizeSum(Tail(os))

\* C11: every path that survives exclusion in a rule evaluation gets exactly
\* one outcome, so at the end of the run copied count + skipped list + error
\* list add up to the number of surviving paths over all include rules, the
\* copied count is the number of copied/would-copy outcomes, and total bytes
\* is the sum of the sizes of exactly those paths.
C11_OutcomeAccounting ==
  /\ totalFilesCopied + successfulCopies + Len(skippedFiles) + Len(errorFiles)
       = Len(outcomes)
  /\ pc = "done" =>
       /\ \A rule \in 1..Len(copyRules) :
            [i \in 1..Len(OutcomesOfRule(rule)) |-> OutcomesOfRule(rule)[i].file]
              = Survivors(rule)
       /\ totalFilesCopied + Len(skippedFiles) + Len(errorFiles)
            = SurvivorCount(Len(copyRules))
       /\ totalFilesCopied = Len(SelectSeq(outcomes, IsCopyOutcome))
       /\ totalBytes = SizeSum(SelectSeq(outcomes, IsCopyOutcome))

\* C11 witness: a finished run over two include rules with surviving paths,
\* in which one path was copied, one skipped and one had an error.
C11_Witness ==
  /\ pc = "done"
  /\ totalFilesCopied > 0 /\ Len(skippedFiles) > 0 /\ Len(errorFiles) > 0
  /\ \A rule \in 1..Len(copyRules) : Survivors(rule) # <<>>
  /\ Len(copyRules) = 2

====
